---- MODULE Spec2Model ----
(***************************************************************************)
(* Model of src/App.js: the React component App of the student management  *)
(* system.  The component's useState cells are the variables; every event  *)
(* handler, effect and provider callback is one action.  An effect runs in *)
(* the same step as the state change that triggers it (React flushes the   *)
(* effects of a render before the next event is handled).                  *)
(*                                                                         *)
(* Text is a sequence of one-character strings, so that toLowerCase,       *)
(* includes and the e-mail pattern are computed character by character.    *)
(***************************************************************************)
EXTENDS Integers, Sequences, FiniteSets, TLC

\* ---------------------------------------------------------------- bounds
\* uids the authentication provider can issue
MaxUsers == 2
\* document identifiers the store can assign
MaxIds == 2
\* mutation requests in flight at once
MaxPending == 2
\* confirmation dialogs awaiting an answer at once
MaxConfirms == 1
\* failures of the environment in one run: a throwing initialization, a
\* rejected sign-in or request, a failing listener
MaxFaults == 1

\* ------------------------------------------------------------ null values
\* userId === null (its template rendering `${userId}` names partition "null")
NoUser == 0
\* a record without an id field (the create template)
NoId == 0
\* error === null
NoError == "null"

Partitions == 0..MaxUsers
Uids == 1..MaxUsers

\* A run explores the component under one profile of limits, chosen at the
\* start and never changed: every profile raises one dimension over the
\* smallest values (one uid, one document id, one request in flight, no
\* confirmation dialog, no failure of the environment, the plain inputs),
\* so that the runs add up instead of multiplying.
Smallest ==
    [users |-> 1, ids |-> 1, pending |-> 1, confirms |-> 0, faults |-> 0,
     inputs |-> "plain"]

Profiles ==
    { [Smallest EXCEPT !.inputs = "fields"],
      [Smallest EXCEPT !.inputs = "terms"],
      [Smallest EXCEPT !.users = MaxUsers],
      [Smallest EXCEPT !.ids = MaxIds],
      [Smallest EXCEPT !.pending = MaxPending],
      [Smallest EXCEPT !.confirms = MaxConfirms],
      [Smallest EXCEPT !.faults = MaxFaults] }

\* ------------------------------------------------------------ input values
Names == { <<>>, <<"A", "n">> }
Emails(inputs) ==
    IF inputs = "fields"
    THEN { <<>>, <<"a", "@", "b">>, <<"a", "@", "b", ".", "c">> }
    ELSE { <<>>, <<"a", "@", "b", ".", "c">> }
StudentIds(inputs) ==
    IF inputs = "fields"
    THEN { <<>>, <<"S", "1">>, <<"s", "7">> }
    ELSE { <<>>, <<"S", "1">> }
Phones == { <<>> }
SearchTerms(inputs) ==
    IF inputs = "terms"
    THEN { <<>>, <<"S">>, <<"A", "N">> }
    ELSE { <<>> }

FieldValues(f, inputs) ==
    CASE f = "name" -> Names
      [] f = "email" -> Emails(inputs)
      [] f = "studentId" -> StudentIds(inputs)
      [] f = "phone" -> Phones

FieldNames == {"name", "email", "studentId", "phone"}

\* ------------------------------------------------------------ error texts
ErrInit == "Could not connect to the database. Please check your configuration."
ErrAuth == "Authentication failed. Please refresh the page."
ErrFetch == "Failed to fetch student data."
ErrRequired == "Name, Email, and Student ID are required."
ErrEmail == "Please enter a valid email address."
ErrAdd == "Failed to add student. Please try again."
ErrUpdate == "Failed to update student. Please try again."
ErrDelete == "Failed to delete student. Please try again."

\* --------------------------------------------------------------- text
\* String.prototype.toLowerCase on one character
LowerChar(c) ==
    CASE c = "A" -> "a"
      [] c = "B" -> "b"
      [] c = "S" -> "s"
      [] OTHER -> c

ToLowerCase(s) == [i \in 1..Len(s) |-> LowerChar(s[i])]

\* String.prototype.includes
Includes(s, t) ==
    \E i \in 0..(Len(s) - Len(t)) : SubSeq(s, i + 1, i + Len(t)) = t

\* the class \S
NonSpace(c) == c # " "

\* /\S+@\S+\.\S+/.test(s): unanchored, so any position of the "@" will do
EmailTest(s) ==
    \E p \in 1..Len(s), q \in 1..Len(s) :
        /\ s[p] = "@"
        /\ p >= 2
        /\ NonSpace(s[p - 1])
        /\ q >= p + 2
        /\ \A k \in (p + 1)..(q - 1) : NonSpace(s[k])
        /\ s[q] = "."
        /\ q + 1 <= Len(s)
        /\ NonSpace(s[q + 1])

Range(s) == { s[i] : i \in 1..Len(s) }

\* ------------------------------------------------------------- records
EmptyStudent ==
    [id |-> NoId, name |-> <<>>, email |-> <<>>, phone |-> <<>>, studentId |-> <<>>]

\* snapshot.docs.map(doc => ({ id: doc.id, ...doc.data() })): a field id of the
\* data, when there is one, overrides the document's id
Materialize(docs) ==
    [i \in 1..Len(docs) |->
        IF docs[i].data.id # NoId
        THEN docs[i].data
        ELSE [docs[i].data EXCEPT !.id = docs[i].id]]

\* the filter effect's predicate: the term is lowercased, and so are name and
\* email, but studentId is only converted to text
Matches(student, term) ==
    LET lowercasedTerm == ToLowerCase(term) IN
       \/ Includes(ToLowerCase(student.name), lowercasedTerm)
       \/ Includes(ToLowerCase(student.email), lowercasedTerm)
       \/ Includes(student.studentId, lowercasedTerm)

FilterStudents(list, term) ==
    SelectSeq(list, LAMBDA student : Matches(student, term))

VARIABLES
    limits,           \* the profile of limits of this run
    faults,           \* the failures of the environment so far
    phase,            \* "new" (constructed), "mounted", "unmounted"
    students, filteredStudents, isModalOpen, isEditMode, currentStudent,
    searchTerm, isLoading, error, db, userId,
    authListening,    \* onAuthStateChanged's callback is registered
    authInit,         \* the provider has delivered the initial auth state
    authUser,         \* the provider's signed-in user, NoUser when signed out
    nextUid,          \* the next uid the provider issues
    signInPending,    \* a signInAnonymously call is awaited
    listeners,        \* partitions with a live onSnapshot listener
    snapPending,      \* listeners with a snapshot to deliver
    store,            \* partition -> documents, in the store's order
    nextId,           \* the next document id the store assigns
    requests,         \* addDoc/updateDoc/deleteDoc calls awaited
    confirms,         \* customConfirm dialogs awaited
    delWatch          \* history: the latest dispatched delete and the list then

vars == << limits, faults, phase, students, filteredStudents, isModalOpen, isEditMode,
           currentStudent, searchTerm, isLoading, error, db, userId,
           authListening, authInit, authUser, nextUid, signInPending,
           listeners, snapPending, store, nextId, requests, confirms, delWatch >>

uiVars == << isModalOpen, isEditMode, currentStudent, searchTerm >>
listVars == << students, filteredStudents, isLoading >>
authVars == << db, userId, authListening, authInit, authUser, nextUid, signInPending >>
subVars == << listeners, snapPending >>
storeVars == << store, nextId >>

NoWatch == [st |-> "none", part |-> NoUser, id |-> NoId, list |-> <<>>]

Init ==
    /\ limits \in Profiles
    /\ faults = 0
    /\ phase = "new"
    /\ students = <<>>
    /\ filteredStudents = <<>>
    /\ isModalOpen = FALSE
    /\ isEditMode = FALSE
    /\ currentStudent = EmptyStudent
    /\ searchTerm = <<>>
    /\ isLoading = TRUE
    /\ error = NoError
    /\ db = FALSE
    /\ userId = NoUser
    /\ authListening = FALSE
    /\ authInit = FALSE
    /\ authUser = NoUser
    /\ nextUid = 1
    /\ signInPending = FALSE
    /\ listeners = {}
    /\ snapPending = {}
    /\ store = [p \in Partitions |-> <<>>]
    /\ nextId = 1
    /\ requests = <<>>
    /\ confirms = {}
    /\ delWatch = NoWatch


\* ------------------------------------------------- effects and helpers
\* the environment fails once more, within the limit of the run
Fault == faults < limits.faults /\ faults' = faults + 1

\* the subscription effect, run when userId becomes uid (db is set): the
\* cleanup of the previous run unsubscribes its listener, then the effect
\* sets the loading flag and subscribes to the partition of uid
SubscriptionEffect(uid) ==
    /\ isLoading' = TRUE
    /\ listeners' = (listeners \ {userId}) \cup {uid}
    /\ snapPending' = (snapPending \ {userId}) \cup {uid}

\* onAuthStateChanged's callback with a user: setUserId(user.uid); a changed
\* userId re-runs the subscription effect
OnUser(uid) ==
    IF uid # userId
    THEN userId' = uid /\ SubscriptionEffect(uid)
    ELSE UNCHANGED << userId, isLoading, listeners, snapPending >>

\* a closeModal that forgets to reset the form
closeModalKeepsForm ==
    /\ isModalOpen' = FALSE
    /\ isEditMode' = FALSE
    /\ currentStudent' = currentStudent
    /\ error' = NoError

\* closeModal
closeModal ==
    /\ isModalOpen' = FALSE
    /\ isEditMode' = FALSE
    /\ currentStudent' = EmptyStudent
    /\ error' = NoError

\* a validateForm without the pattern test
ValidateFormRequiredOnly(student) ==
    IF student.name = <<>> \/ student.email = <<>> \/ student.studentId = <<>>
    THEN ErrRequired
    ELSE NoError

\* validateForm: the error it sets, NoError when it returns true
ValidateForm(student) ==
    IF student.name = <<>> \/ student.email = <<>> \/ student.studentId = <<>>
    THEN ErrRequired
    ELSE IF ~EmailTest(student.email)
    THEN ErrEmail
    ELSE NoError

\* the requests no longer belong to the form on screen
LeaveForm(reqs) == [i \in 1..Len(reqs) |-> [reqs[i] EXCEPT !.form = FALSE]]

RemoveAt(s, i) == SubSeq(s, 1, i - 1) \o SubSeq(s, i + 1, Len(s))

\* a table row for student is on screen
RowRendered(student) ==
    /\ ~isLoading
    /\ students # <<>>
    /\ student \in Range(filteredStudents)

\* the inline error banner is on screen: it is part of the modal
ErrorBannerRendered == isModalOpen /\ error # NoError

\* ------------------------------------ initialization and authentication
\* the mount effects; ok says whether the initialization effect's try block
\* completes (initializeApp, getFirestore or getAuth may throw)
Mount(ok) ==
    /\ phase = "new"
    /\ phase' = "mounted"
    /\ db' = ok
    /\ authListening' = ok
    /\ IF ok
       THEN UNCHANGED << error, isLoading, faults >>
       ELSE Fault /\ error' = ErrInit /\ isLoading' = FALSE
    /\ filteredStudents' = FilterStudents(students, searchTerm)
    /\ UNCHANGED << limits, students, uiVars, userId, authInit, authUser, nextUid,
                    signInPending, subVars, storeVars, requests, confirms, delWatch >>

\* the provider's first report of the auth state: a persisted session, or none
AuthInitial(hasSession) ==
    /\ phase = "mounted" /\ authListening /\ ~authInit
    /\ authInit' = TRUE
    /\ IF hasSession
       THEN /\ nextUid <= limits.users
            /\ authUser' = nextUid
            /\ nextUid' = nextUid + 1
            /\ OnUser(nextUid)
            /\ UNCHANGED signInPending
       ELSE /\ signInPending' = TRUE
            /\ UNCHANGED << authUser, nextUid, userId, isLoading, subVars >>
    /\ UNCHANGED << limits, faults, phase, students, filteredStudents, uiVars, error, db,
                    authListening, storeVars, requests, confirms, delWatch >>

\* signInAnonymously resolves: the provider reports the new user
SignInSuccess ==
    /\ phase = "mounted" /\ signInPending
    /\ nextUid <= limits.users
    /\ signInPending' = FALSE
    /\ authUser' = nextUid
    /\ nextUid' = nextUid + 1
    /\ OnUser(nextUid)
    /\ UNCHANGED << limits, faults, phase, students, filteredStudents, uiVars, error, db,
                    authListening, authInit, storeVars, requests, confirms, delWatch >>

\* signInAnonymously rejects
SignInFail ==
    /\ phase = "mounted" /\ signInPending
    /\ Fault
    /\ signInPending' = FALSE
    /\ error' = ErrAuth
    /\ UNCHANGED << limits, phase, listVars, uiVars, db, userId, authListening, authInit,
                    authUser, nextUid, subVars, storeVars, requests, confirms, delWatch >>

\* the session ends at the provider: the callback runs with no user and
\* signs in again; userId keeps its value
SignOut ==
    /\ phase = "mounted" /\ authListening /\ authUser # NoUser
    /\ authUser' = NoUser
    /\ signInPending' = TRUE
    /\ UNCHANGED << limits, faults, phase, listVars, uiVars, error, db, userId, authListening,
                    authInit, nextUid, subVars, storeVars, requests, confirms, delWatch >>

\* ---------------------------------------------------------- subscription
\* onSnapshot's success callback for the listener on partition u
OnSnapshot(u) ==
    /\ phase = "mounted" /\ u \in snapPending
    /\ students' = Materialize(store[u])
    /\ isLoading' = FALSE
    /\ filteredStudents' = FilterStudents(students', searchTerm)
    /\ snapPending' = snapPending \ {u}
    /\ delWatch' = IF delWatch.st = "applied" /\ delWatch.part = u
                   THEN NoWatch ELSE delWatch
    /\ UNCHANGED << limits, faults, phase, uiVars, error, authVars, listeners, storeVars,
                    requests, confirms >>

\* onSnapshot's error callback; the store ends a listener that failed
OnSnapshotError(u) ==
    /\ phase = "mounted" /\ u \in listeners
    /\ Fault
    /\ error' = ErrFetch
    /\ isLoading' = FALSE
    /\ listeners' = listeners \ {u}
    /\ snapPending' = snapPending \ {u}
    /\ UNCHANGED << limits, phase, students, filteredStudents, uiVars, authVars,
                    storeVars, requests, confirms, delWatch >>

\* the component unmounts: both effects' cleanups run and the component's
\* state cells are discarded; continuations that are still awaited find
\* nothing to update, so the model follows them no further
Unmount ==
    /\ phase = "mounted"
    /\ phase' = "unmounted"
    /\ students' = <<>>
    /\ filteredStudents' = <<>>
    /\ isModalOpen' = FALSE
    /\ isEditMode' = FALSE
    /\ currentStudent' = EmptyStudent
    /\ searchTerm' = <<>>
    /\ isLoading' = TRUE
    /\ error' = NoError
    /\ db' = FALSE
    /\ userId' = NoUser
    /\ authListening' = FALSE
    /\ authInit' = FALSE
    /\ signInPending' = FALSE
    /\ listeners' = {}
    /\ snapPending' = {}
    /\ requests' = <<>>
    /\ confirms' = {}
    /\ delWatch' = NoWatch
    /\ UNCHANGED << limits, faults, authUser, nextUid, storeVars >>

\* ------------------------------------------------------ modal and form
\* openModal, from the header's "Add Student" button
OpenModal ==
    /\ phase = "mounted"
    /\ isModalOpen' = TRUE
    /\ UNCHANGED << limits, faults, phase, listVars, isEditMode, currentStudent, searchTerm, error,
                    authVars, subVars, storeVars, requests, confirms, delWatch >>

\* closeModal, from the modal's X and Cancel buttons
CloseModal ==
    /\ phase = "mounted" /\ isModalOpen
    /\ closeModal
    /\ requests' = LeaveForm(requests)
    /\ UNCHANGED << limits, faults, phase, listVars, searchTerm, authVars, subVars, storeVars,
                    confirms, delWatch >>

\* handleInputChange, from one of the modal's inputs (onChange: a new value)
HandleInputChange(f, v) ==
    /\ phase = "mounted" /\ isModalOpen
    /\ v # currentStudent[f]
    /\ currentStudent' = [currentStudent EXCEPT ![f] = v]
    /\ UNCHANGED << limits, faults, phase, listVars, isModalOpen, isEditMode, searchTerm, error,
                    authVars, subVars, storeVars, requests, confirms, delWatch >>

\* the search input's onChange, and the filter effect it triggers
SetSearchTerm(t) ==
    /\ phase = "mounted"
    /\ t # searchTerm
    /\ searchTerm' = t
    /\ filteredStudents' = FilterStudents(students, t)
    /\ UNCHANGED << limits, faults, phase, students, isLoading, isModalOpen, isEditMode,
                    currentStudent, error, authVars, subVars, storeVars,
                    requests, confirms, delWatch >>

\* startEdit, from a row's edit button
StartEdit(student) ==
    /\ phase = "mounted" /\ RowRendered(student)
    /\ isEditMode' = TRUE
    /\ currentStudent' = student
    /\ isModalOpen' = TRUE
    /\ requests' = LeaveForm(requests)
    /\ UNCHANGED << limits, faults, phase, listVars, searchTerm, error, authVars, subVars,
                    storeVars, confirms, delWatch >>

\* ------------------------------------------------------ CRUD handlers
\* addDoc(collection(db, `artifacts/${appId}/users/${userId}/students`), currentStudent)
AddRequest(uid, student) ==
    [op |-> "add", part |-> uid, id |-> NoId, data |-> student, form |-> TRUE]

\* updateDoc(doc(db, `.../users/${userId}/students`, currentStudent.id), currentStudent)
UpdateRequest(uid, student) ==
    [op |-> "update", part |-> uid, id |-> student.id, data |-> student, form |-> TRUE]

\* a delete that names the form's record instead of the row's
DeleteRequestOfForm(uid, id) ==
    [op |-> "delete", part |-> uid, id |-> currentStudent.id, data |-> EmptyStudent,
     form |-> FALSE]

\* deleteDoc(doc(db, `.../users/${userId}/students`, id))
DeleteRequest(uid, id) ==
    [op |-> "delete", part |-> uid, id |-> id, data |-> EmptyStudent, form |-> FALSE]

\* handleAddStudent, from the modal's submit button in create mode
HandleAddStudent ==
    /\ phase = "mounted" /\ isModalOpen /\ ~isEditMode
    /\ IF ValidateForm(currentStudent) # NoError
       THEN error' = ValidateForm(currentStudent) /\ UNCHANGED requests
       ELSE IF ~db
       THEN error' = ErrAdd /\ UNCHANGED requests
       ELSE /\ Len(requests) < limits.pending
            /\ requests' = Append(requests, AddRequest(userId, currentStudent))
            /\ UNCHANGED error
    /\ UNCHANGED << limits, faults, phase, listVars, uiVars, authVars, subVars, storeVars,
                    confirms, delWatch >>

\* handleUpdateStudent, from the modal's submit button in edit mode
HandleUpdateStudent ==
    /\ phase = "mounted" /\ isModalOpen /\ isEditMode
    /\ IF ValidateForm(currentStudent) # NoError
       THEN error' = ValidateForm(currentStudent) /\ UNCHANGED requests
       ELSE IF ~db
       THEN error' = ErrUpdate /\ UNCHANGED requests
       ELSE /\ Len(requests) < limits.pending
            /\ requests' = Append(requests, UpdateRequest(userId, currentStudent))
            /\ UNCHANGED error
    /\ UNCHANGED << limits, faults, phase, listVars, uiVars, authVars, subVars, storeVars,
                    confirms, delWatch >>

\* the try block of handleDeleteStudent, with the userId its closure holds
DispatchDelete(uid, id) ==
    IF ~db
    THEN error' = ErrDelete /\ UNCHANGED << requests, delWatch >>
    ELSE /\ Len(requests) < limits.pending
         /\ requests' = Append(requests, DeleteRequest(uid, id))
         /\ delWatch' = [st |-> "sent", part |-> uid, id |-> id,
                         list |-> SelectSeq(students, LAMBDA s : s.id # id)]
         /\ UNCHANGED error

\* handleDeleteStudent, from a row's delete button; hasConfirm says whether
\* window.customConfirm is defined when the handler runs
HandleDeleteStudent(id, hasConfirm) ==
    /\ phase = "mounted"
    /\ \E student \in Range(filteredStudents) : student.id = id /\ RowRendered(student)
    /\ IF hasConfirm
       THEN /\ Cardinality(confirms) < limits.confirms
            /\ confirms' = confirms \cup {[id |-> id, part |-> userId]}
            /\ UNCHANGED << requests, delWatch, error >>
       ELSE DispatchDelete(userId, id) /\ UNCHANGED confirms
    /\ UNCHANGED << limits, faults, phase, listVars, uiVars, authVars, subVars, storeVars >>

\* window.customConfirm's promise resolves with the user's answer
ConfirmAnswer(c, yes) ==
    /\ phase = "mounted" /\ c \in confirms
    /\ confirms' = confirms \ {c}
    /\ IF yes
       THEN DispatchDelete(c.part, c.id)
       ELSE UNCHANGED << requests, delWatch, error >>
    /\ UNCHANGED << limits, faults, phase, listVars, uiVars, authVars, subVars, storeVars >>

\* ------------------------------------------ the awaited store requests
HasDoc(docs, id) == \E k \in 1..Len(docs) : docs[k].id = id

\* the store's delete of the document id
RemoveDoc(docs, id) == SelectSeq(docs, LAMBDA d : d.id # id)

\* the store's update of the document id with the fields of data
ReplaceDoc(docs, id, data) ==
    [k \in 1..Len(docs) |-> IF docs[k].id = id THEN [docs[k] EXCEPT !.data = data] ELSE docs[k]]

\* a changed partition owes its listener a snapshot
Notify(part) == IF part \in listeners THEN snapPending \cup {part} ELSE snapPending

\* addDoc resolves: the store has assigned an id; closeModal()
AddDocDone(i) ==
    /\ phase = "mounted" /\ i \in 1..Len(requests) /\ requests[i].op = "add"
    /\ nextId <= limits.ids
    /\ store' = [store EXCEPT ![requests[i].part] =
                    Append(@, [id |-> nextId, data |-> requests[i].data])]
    /\ nextId' = nextId + 1
    /\ snapPending' = Notify(requests[i].part)
    /\ closeModal
    /\ requests' = LeaveForm(RemoveAt(requests, i))
    /\ UNCHANGED << limits, faults, phase, listVars, searchTerm, authVars, listeners, confirms, delWatch >>

\* addDoc rejects
AddDocFail(i) ==
    /\ phase = "mounted" /\ i \in 1..Len(requests) /\ requests[i].op = "add"
    /\ Fault
    /\ error' = ErrAdd
    /\ requests' = RemoveAt(requests, i)
    /\ UNCHANGED << limits, phase, listVars, uiVars, authVars, subVars, storeVars,
                    confirms, delWatch >>

\* updateDoc resolves (the document exists); closeModal()
UpdateDocDone(i) ==
    /\ phase = "mounted" /\ i \in 1..Len(requests) /\ requests[i].op = "update"
    /\ HasDoc(store[requests[i].part], requests[i].id)
    /\ store' = [store EXCEPT ![requests[i].part] =
                    ReplaceDoc(@, requests[i].id, requests[i].data)]
    /\ snapPending' = IF store' # store THEN Notify(requests[i].part) ELSE snapPending
    /\ closeModal
    /\ requests' = LeaveForm(RemoveAt(requests, i))
    /\ UNCHANGED << limits, faults, phase, listVars, searchTerm, authVars, listeners, nextId,
                    confirms, delWatch >>

\* updateDoc rejects (always so when the document does not exist)
UpdateDocFail(i) ==
    /\ phase = "mounted" /\ i \in 1..Len(requests) /\ requests[i].op = "update"
    /\ IF HasDoc(store[requests[i].part], requests[i].id)
       THEN Fault
       ELSE UNCHANGED faults
    /\ error' = ErrUpdate
    /\ requests' = RemoveAt(requests, i)
    /\ UNCHANGED << limits, phase, listVars, uiVars, authVars, subVars, storeVars,
                    confirms, delWatch >>

\* a deleteDoc continuation that removes the row from the list itself
DeleteDocDoneOptimistic(i) ==
    /\ phase = "mounted" /\ i \in 1..Len(requests) /\ requests[i].op = "delete"
    /\ store' = [store EXCEPT ![requests[i].part] = RemoveDoc(@, requests[i].id)]
    /\ snapPending' = IF store' # store THEN Notify(requests[i].part) ELSE snapPending
    /\ requests' = RemoveAt(requests, i)
    /\ delWatch' = delWatch
    /\ students' = SelectSeq(students, LAMBDA s : s.id # requests[i].id)
    /\ filteredStudents' = FilterStudents(students', searchTerm)
    /\ UNCHANGED << limits, faults, phase, isLoading, uiVars, error, authVars, listeners,
                    nextId, confirms >>

\* deleteDoc resolves
DeleteDocDone(i) ==
    /\ phase = "mounted" /\ i \in 1..Len(requests) /\ requests[i].op = "delete"
    /\ store' = [store EXCEPT ![requests[i].part] = RemoveDoc(@, requests[i].id)]
    /\ snapPending' = IF store' # store THEN Notify(requests[i].part) ELSE snapPending
    /\ requests' = RemoveAt(requests, i)
    /\ delWatch' = IF /\ delWatch.st = "sent"
                      /\ delWatch.part = requests[i].part
                      /\ delWatch.id = requests[i].id
                   THEN [delWatch EXCEPT !.st = "applied"]
                   ELSE delWatch
    /\ UNCHANGED << limits, faults, phase, listVars, uiVars, error, authVars, listeners, nextId,
                    confirms >>

\* deleteDoc rejects
DeleteDocFail(i) ==
    /\ phase = "mounted" /\ i \in 1..Len(requests) /\ requests[i].op = "delete"
    /\ Fault
    /\ error' = ErrDelete
    /\ requests' = RemoveAt(requests, i)
    /\ delWatch' = IF /\ delWatch.st = "sent"
                      /\ delWatch.part = requests[i].part
                      /\ delWatch.id = requests[i].id
                   THEN NoWatch
                   ELSE delWatch
    /\ UNCHANGED << limits, phase, listVars, uiVars, authVars, subVars, storeVars, confirms >>

\* ------------------------------------------------------- specification
Next ==
    \/ \E ok \in BOOLEAN : Mount(ok)
    \/ \E hasSession \in BOOLEAN : AuthInitial(hasSession)
    \/ SignInSuccess
    \/ SignInFail
    \/ SignOut
    \/ \E u \in Uids : OnSnapshot(u)
    \/ \E u \in Uids : OnSnapshotError(u)
    \/ Unmount
    \/ OpenModal
    \/ CloseModal
    \/ \E f \in FieldNames : \E v \in FieldValues(f, limits.inputs) : HandleInputChange(f, v)
    \/ \E t \in SearchTerms(limits.inputs) : SetSearchTerm(t)
    \/ \E student \in Range(filteredStudents) : StartEdit(student)
    \/ HandleAddStudent
    \/ HandleUpdateStudent
    \/ \E student \in Range(filteredStudents), hasConfirm \in BOOLEAN :
            HandleDeleteStudent(student.id, hasConfirm)
    \/ \E c \in confirms, yes \in BOOLEAN : ConfirmAnswer(c, yes)
    \/ \E i \in 1..Len(requests) : AddDocDone(i)
    \/ \E i \in 1..Len(requests) : AddDocFail(i)
    \/ \E i \in 1..Len(requests) : UpdateDocDone(i)
    \/ \E i \in 1..Len(requests) : UpdateDocFail(i)
    \/ \E i \in 1..Len(requests) : DeleteDocDone(i)
    \/ \E i \in 1..Len(requests) : DeleteDocFail(i)

Spec == Init /\ [][Next]_vars

\* The provider delivers what it owes: the first auth state to a registered
\* onAuthStateChanged callback, the outcome of an awaited signInAnonymously,
\* and the snapshot a listener is due.  Clicks, keystrokes, the end of a
\* session and the unmount are under no obligation to happen.
ProviderFairness ==
    /\ WF_vars(\E hasSession \in BOOLEAN : AuthInitial(hasSession))
    /\ WF_vars(SignInSuccess \/ SignInFail)
    /\ \A u \in Uids : WF_vars(OnSnapshot(u))

FairSpec == Spec /\ ProviderFairness


TypeOK ==
    /\ limits \in Profiles
    /\ phase \in {"new", "mounted", "unmounted"}
    /\ isModalOpen \in BOOLEAN /\ isEditMode \in BOOLEAN /\ isLoading \in BOOLEAN
    /\ db \in BOOLEAN /\ authListening \in BOOLEAN /\ authInit \in BOOLEAN
    /\ signInPending \in BOOLEAN
    /\ userId \in Partitions /\ authUser \in Partitions
    /\ listeners \subseteq Uids /\ snapPending \subseteq listeners
    /\ Len(requests) <= limits.pending
    /\ Cardinality(confirms) <= limits.confirms
    /\ faults \in 0..limits.faults
    /\ nextId \in 1..(limits.ids + 1) /\ nextUid \in 1..(limits.users + 1)

\* ===================================================================
\* The claims
\* ===================================================================

\* C1: once the filter effect has run, filteredStudents is exactly the
\* subsequence of students whose name, email or studentId (as text) contains
\* the search term when both are compared case-insensitively; with the empty
\* term it equals students.
C1_FilterIsCaseInsensitive ==
    LET Contains(text, term) == Includes(ToLowerCase(text), ToLowerCase(term))
        Wanted(student) ==
            \/ Contains(student.name, searchTerm)
            \/ Contains(student.email, searchTerm)
            \/ Contains(student.studentId, searchTerm)
    IN  /\ filteredStudents = SelectSeq(students, Wanted)
        /\ searchTerm = <<>> => filteredStudents = students

\* C2: a submit in create or edit mode with name, email or studentId empty,
\* or with an email that does not match \S+@\S+\.\S+, issues no request to
\* the store, sets the error message of the failed test, and leaves the
\* modal open and the form as it was.
C2_InvalidSubmitIsRejected ==
    [][ LET anyEmpty == \/ currentStudent.name = <<>>
                        \/ currentStudent.email = <<>>
                        \/ currentStudent.studentId = <<>>
            malformed == ~EmailTest(currentStudent.email)
        IN  ((HandleAddStudent \/ HandleUpdateStudent) /\ (anyEmpty \/ malformed))
            => /\ requests' = requests
               /\ store' = store
               /\ error' = (IF anyEmpty THEN ErrRequired ELSE ErrEmail)
               /\ isModalOpen'
               /\ isEditMode' = isEditMode
               /\ currentStudent' = currentStudent ]_vars

\* C2 witness: a form with a malformed email has been submitted and rejected.
C2_Witness ==
    /\ isModalOpen
    /\ error = ErrEmail
    /\ currentStudent.email # <<>> /\ ~EmailTest(currentStudent.email)
    /\ currentStudent.name # <<>> /\ currentStudent.studentId # <<>>
    /\ requests = <<>>

\* C3: for each create form that is opened, filled validly and submitted, the
\* store receives one insert, carrying no identifier, under every
\* interleaving of the clicks with the pending insert's completion: at most
\* one insert of the form on screen is ever awaited.
C3_OneInsertPerForm ==
    /\ Cardinality({ i \in 1..Len(requests) :
                        requests[i].op = "add" /\ requests[i].form }) <= 1
    /\ \A i \in 1..Len(requests) : requests[i].op = "add" => requests[i].data.id = NoId

\* C4: no delete request is dispatched to the store unless the user has gone
\* through a confirmation step for it and confirmed: the only step that adds
\* a delete request is the confirmed answer of a dialog.
C4_DeleteOnlyAfterConfirmation ==
    [][ (/\ Len(requests') > Len(requests)
         /\ requests'[Len(requests')].op = "delete")
        => \E c \in confirms : ConfirmAnswer(c, TRUE) ]_vars

\* C5: every store operation targets the partition of the resolved, non-null
\* user identifier: no listener and no request is on the partition that a
\* null userId names.
C5_OperationsTargetResolvedUser ==
    /\ NoUser \notin listeners
    /\ \A i \in 1..Len(requests) : requests[i].part # NoUser

\* C6 as stated: the next snapshot applied to the list after a confirmed
\* delete has been carried out equals the list at the time of the delete
\* minus the record with that id.
C6_NextSnapshotIsListMinusRecord ==
    [][ \A u \in Uids :
           (OnSnapshot(u) /\ delWatch.st = "applied" /\ delWatch.part = u)
           => students' = delWatch.list ]_vars

\* C6 as amended: a confirmed delete issues exactly one delete request, for
\* that id in the partition of the userId the handler holds; the store then
\* removes exactly the document with that id from that partition, leaving
\* the other documents and their order; and the next snapshot applied from
\* that partition is the partition's content then, without that id (it also
\* shows whatever other requests the store has carried out meanwhile).
C6_DeleteRemovesExactlyThatId ==
    [][ LET request(part, id) ==
                [op |-> "delete", part |-> part, id |-> id, data |-> EmptyStudent,
                 form |-> FALSE]
        IN  /\ \A student \in Range(filteredStudents) :
                  HandleDeleteStudent(student.id, FALSE)
                  => requests' = Append(requests, request(userId, student.id))
            /\ \A c \in confirms :
                  ConfirmAnswer(c, TRUE)
                  => requests' = Append(requests, request(c.part, c.id))
            /\ \A i \in 1..Len(requests) :
                  DeleteDocDone(i)
                  => /\ store'[requests[i].part] =
                            SelectSeq(store[requests[i].part],
                                      LAMBDA d : d.id # requests[i].id)
                     /\ \A p \in Partitions \ {requests[i].part} : store'[p] = store[p]
                     /\ students' = students
            /\ \A u \in Uids :
                  OnSnapshot(u)
                  => /\ students' = Materialize(store[u])
                     /\ (delWatch.st = "applied" /\ delWatch.part = u)
                        => \A k \in 1..Len(students') : students'[k].id # delWatch.id
      ]_vars

\* C6 witness: two documents were created, one of them has been deleted and
\* the list shows the snapshot with the other one.
C6_Witness ==
    \E u \in listeners :
        /\ u \notin snapPending
        /\ ~isLoading
        /\ nextId = 3
        /\ Len(store[u]) = 1
        /\ \A p \in Partitions \ {u} : store[p] = <<>>
        /\ students = Materialize(store[u])
        /\ delWatch = NoWatch

\* C7: whenever the error message is set by an authentication, subscription,
\* validation or request failure, the error banner is on screen in that
\* state, the modal open or not.
C7_ErrorIsAlwaysShown ==
    (phase = "mounted" /\ error \notin {NoError, ErrInit}) => ErrorBannerRendered

\* C8: students is written only by the snapshot callback of a live listener,
\* which replaces the list by the delivered snapshot; every other step of the
\* mounted component leaves it unchanged.
C8_OnlySnapshotWritesList ==
    [][ (phase' = "mounted" /\ students' # students)
        => \E u \in listeners : OnSnapshot(u) /\ students' = Materialize(store[u]) ]_vars

\* C8 witness: a delete is awaited and the list still holds the record.
C8_Witness ==
    /\ Len(requests) > 0
    /\ requests[1].op = "delete"
    /\ \E k \in 1..Len(students) : students[k].id = requests[1].id

\* C9: at most one listener is live and it is on the partition of the current
\* session, so no snapshot is applied from a partition whose session has
\* ended or whose userId has been replaced.
C9_SnapshotsOnlyFromCurrentSession ==
    [][ \A u \in Uids :
           OnSnapshot(u)
           => /\ Cardinality(listeners) <= 1
              /\ userId = u
              /\ authUser = u ]_vars

\* C10: closeModal closes the modal, sets create mode, the empty template
\* and no error; so whenever the modal is closed the form is the empty
\* template in create mode, and a form opened by the add button starts as an
\* empty create form without an identifier.
C10_ClosedFormIsEmptyTemplate ==
    /\ [](~isModalOpen => (currentStudent = EmptyStudent /\ ~isEditMode))
    /\ [][ /\ (CloseModal \/ \E i \in 1..Len(requests) : AddDocDone(i) \/ UpdateDocDone(i))
              => /\ ~isModalOpen'
                 /\ ~isEditMode'
                 /\ currentStudent' = EmptyStudent
                 /\ error' = NoError
           /\ (OpenModal /\ ~isModalOpen)
              => /\ isModalOpen'
                 /\ ~isEditMode'
                 /\ currentStudent' = EmptyStudent
                 /\ currentStudent'.id = NoId ]_vars

\* C10 witness: a successful add has closed the modal of the mounted component.
C10_Witness ==
    /\ phase = "mounted"
    /\ ~isModalOpen
    /\ nextId > 1
    /\ error = NoError

\* C11: the successful completion of an add or update request closes and
\* resets only the form that submitted it: when that form has been left
\* meanwhile (the modal closed, or another record taken into the form), the
\* completion leaves the modal, the mode and the fields of the form on screen
\* as they are.
C11_CompletionClosesOnlyItsForm ==
    [][ \A i \in 1..Len(requests) :
           ((AddDocDone(i) \/ UpdateDocDone(i)) /\ ~requests[i].form)
           => /\ isModalOpen' = isModalOpen
              /\ isEditMode' = isEditMode
              /\ currentStudent' = currentStudent ]_vars

\* C12: under fair delivery of the provider's callbacks the loading
\* indicator of the mounted component is eventually cleared, whichever way
\* startup ends (a first snapshot, a subscription error, a failed
\* initialization or a failed anonymous sign-in): isLoading becomes false,
\* unless the component is unmounted first.
C12_LoadingEventuallyCleared ==
    (phase = "mounted" /\ isLoading) ~> (~isLoading \/ phase = "unmounted")

====
